---- MODULE Spec2Model ----
(***************************************************************************)
(* Model of script.py: export of Veracode AUDIT data through the Reporting *)
(* REST API.  The date range is cut into windows of at most                *)
(* MAX_WINDOW_DAYS days; for each window a report is requested (POST),     *)
(* polled until COMPLETED (GET), and the results are written to one file.  *)
(*                                                                         *)
(* Dates are dt.date values, represented by their proleptic Gregorian      *)
(* ordinal (date.toordinal()); date + timedelta is ordinal addition and    *)
(* date comparison is ordinal comparison.  Texts are TLA+ strings.         *)
(* time.sleep is taken to return (non-negative intervals).                 *)
(***************************************************************************)
EXTENDS Integers, Sequences, FiniteSets, TLC

\* ---------------------------------------------------------------- constants
MAX_WINDOW_DAYS == 180

\* ------------------------------------------------------------------- bounds
\* SpecWindows: ranges of 0 .. MaxRangeDays days are enumerated
MaxRangeDays == 362
\* Spec: a range has f full windows plus 0 or 1 day, f <= MaxFullWindows
MaxFullWindows == 1
\* Spec: --max-polls is drawn from -1 .. MaxPolls
MaxPolls == 2

\* ----------------------------------------------------------------- calendar
Min(a, b) == IF a <= b THEN a ELSE b

IsLeap(y) == y % 4 = 0 /\ (y % 100 # 0 \/ y % 400 = 0)

DaysInMonth(y, m) ==
    IF m = 2 THEN (IF IsLeap(y) THEN 29 ELSE 28)
    ELSE IF m \in {4, 6, 9, 11} THEN 30 ELSE 31

DaysBeforeYear(y) ==
    (y - 1) * 365 + ((y - 1) \div 4) - ((y - 1) \div 100) + ((y - 1) \div 400)

DaysBeforeMonth(y, m) ==
    <<0, 31, 59, 90, 120, 151, 181, 212, 243, 273, 304, 334>>[m]
        + (IF m > 2 /\ IsLeap(y) THEN 1 ELSE 0)

\* dt.date(y, m, d): the ordinal of a calendar day
Date(y, m, d) == DaysBeforeYear(y) + DaysBeforeMonth(y, m) + d

\* year, month and day of an ordinal (date.fromordinal)
YMD(ord) ==
    LET n0   == ord - 1
        n400 == n0 \div 146097
        r400 == n0 % 146097
        n100 == r400 \div 36524
        r100 == r400 % 36524
        n4   == r100 \div 1461
        r4   == r100 % 1461
        n1   == r4 \div 365
        r1   == r4 % 365
        year == n400 * 400 + n100 * 100 + n4 * 4 + n1 + 1
        m0   == (r1 + 50) \div 32
        mon  == IF DaysBeforeMonth(year, m0) > r1 THEN m0 - 1 ELSE m0
    IN  IF n1 = 4 \/ n100 = 4
        THEN [y |-> year - 1, m |-> 12, d |-> 31]
        ELSE [y |-> year, m |-> mon, d |-> r1 - DaysBeforeMonth(year, mon) + 1]

Pad2(n) == IF n < 10 THEN "0" \o ToString(n) ELSE ToString(n)

\* date.strftime("%Y-%m-%d") (four-digit years)
Strftime(ord) ==
    LET t == YMD(ord) IN ToString(t.y) \o "-" \o Pad2(t.m) \o "-" \o Pad2(t.d)

\* the days dt.date.fromisoformat can return in this model
FirstDay == Date(2023, 1, 1)
LastDay == Date(2025, 12, 31)
Days == FirstDay .. LastDay

\* to_date: dt.date.fromisoformat, the inverse of the ISO format; a text that
\* is not the ISO format of a day raises ValueError
IsIsoDate(value) == \E n \in Days : Strftime(n) = value
to_date(value) == CHOOSE n \in Days : Strftime(n) = value

\* --------------------------------------------------------------- JSON values
\* a field that is missing from a JSON object, and the JSON null / Python None
Absent == "<absent>"
Null == "<null>"

\* Python truthiness of an optional text
Truthy(v) == v \notin {Absent, Null, ""}

\* report identifiers the server hands out, and the "id" fields it can send
ReportIds == {"r1", "r2"}
IdVals == {Absent, Null, ""} \cup ReportIds

\* bodies of a submission (POST) response: the top-level "id", the kind of
\* the "_embedded" field, and the "id" nested in an "_embedded" object
PostBodies ==
    {b \in [id : IdVals, emb : {Absent, Null, "object"}, emb_id : IdVals] :
        b.emb # "object" => b.emb_id = Absent}

\* bodies of a status (GET) response: the kind of "_embedded", the nested
\* "status", and the rest of the body (the report data)
StatusVals == {Absent, Null, "COMPLETED", "SUBMITTED", "PROCESSING", "FAILED"}
Payloads == {"p1", "p2"}
GetBodies ==
    {b \in [emb : {Absent, Null, "object"}, status : StatusVals, payload : Payloads] :
        b.emb # "object" => b.status = Absent}

\* outcome of resp.raise_for_status()
HttpOutcomes == {"ok", "HTTPError"}

\* -------------------------------------------------------------------- state
VARIABLES
    args,            \* parse_args(): start_date, end_date ("" when not given), max_polls
    pc,              \* position of the run
    start_date,      \* main: start_date (0 before it is parsed)
    end_date,        \* main: end_date
    gen_pc,          \* date_iteration_windows: "start", "yielded" or "done"
    gen_current,     \* date_iteration_windows: current
    gen_window_end,  \* date_iteration_windows: window_end
    yielded,         \* history: the windows yielded so far
    win_id,          \* main: id, the number of the window being processed
    w_start,         \* main: w_start
    w_end,           \* main: w_end
    payload,         \* fetch_audit_window: payload
    start_str,       \* fetch_audit_window: start_str
    end_str,         \* fetch_audit_window: end_str
    report_id,       \* fetch_audit_window: report_id
    post_data,       \* request_report: data, the body of the submission response
    ids,             \* history: the identifier request_report returned, per window
    attempt,         \* wait_for_report: attempt (0 before the first iteration)
    data,            \* wait_for_report: data, then fetch_audit_window: report_data
    status,          \* wait_for_report: status
    seen,            \* history: the statuses of this wait_for_report call
    completed,       \* history: the bodies wait_for_report returned, per window
    all_windows,     \* main: all_windows
    out_file,        \* the output file
    error,           \* the exception that ended the run
    log              \* history: network calls, sleeps, appends and the write

vars == <<args, pc, start_date, end_date, gen_pc, gen_current, gen_window_end,
          yielded, win_id, w_start, w_end, payload, start_str, end_str,
          report_id, post_data, ids, attempt, data, status, seen, completed,
          all_windows, out_file, error, log>>

genVars == <<gen_pc, gen_current, gen_window_end, yielded>>
winVars == <<win_id, w_start, w_end>>
fetchVars == <<payload, start_str, end_str, report_id, post_data>>
pollVars == <<attempt, data, status, seen>>

NoPayload == [k \in {} |-> ""]
NoPostData == [id |-> "", emb |-> "", emb_id |-> ""]
NoData == [emb |-> Absent, status |-> Absent, payload |-> ""]
NoFile == [written |-> FALSE, name |-> "", content |-> <<>>]
NoError == [type |-> "", detail |-> ""]

Event(op, win, id) == [op |-> op, win |-> win, id |-> id]

\* ------------------------------------------------- date_iteration_windows
\* delta = dt.timedelta(days=MAX_WINDOW_DAYS - 1)
delta_short == MAX_WINDOW_DAYS - 2
delta == MAX_WINDOW_DAYS - 1

\* window_end = min(current + delta, end_date)
WindowEnd_unclamped(current, endd) == current + delta
WindowEnd(current, endd) == Min(current + delta, endd)

\* current when the generator is resumed: start_date on the first call,
\* window_end + 1 day after a yield
ResumeCurrent ==
    IF gen_pc = "start" THEN start_date ELSE gen_window_end + 1

\* the loop body: one more window is yielded
GenYield ==
    /\ gen_pc \in {"start", "yielded"}
    /\ ResumeCurrent <= end_date
    /\ gen_current' = ResumeCurrent
    /\ gen_window_end' = WindowEnd(ResumeCurrent, end_date)
    /\ gen_pc' = "yielded"
    /\ yielded' = Append(yielded, <<ResumeCurrent, WindowEnd(ResumeCurrent, end_date)>>)

\* the loop condition fails: the generator is exhausted
GenExhaust ==
    /\ gen_pc \in {"start", "yielded"}
    /\ ~(ResumeCurrent <= end_date)
    /\ gen_current' = ResumeCurrent
    /\ gen_pc' = "done"
    /\ UNCHANGED <<gen_window_end, yielded>>

\* Windower on its own: date_iteration_windows(start, end), iterated to the end
StartDays == {Date(2024, 1, 1), Date(2023, 9, 5)}

WindowsInit ==
    /\ start_date \in StartDays
    /\ end_date \in {start_date + n - 1 : n \in 0 .. MaxRangeDays}
    /\ args = [start_date |-> "", end_date |-> "", max_polls |-> 0]
    /\ pc = "windows"
    /\ gen_pc = "start"
    /\ gen_current = 0
    /\ gen_window_end = 0
    /\ yielded = <<>>
    /\ win_id = 0
    /\ w_start = 0
    /\ w_end = 0
    /\ payload = NoPayload
    /\ start_str = ""
    /\ end_str = ""
    /\ report_id = ""
    /\ post_data = NoPostData
    /\ ids = <<>>
    /\ attempt = 0
    /\ data = NoData
    /\ status = Null
    /\ seen = <<>>
    /\ completed = <<>>
    /\ all_windows = <<>>
    /\ out_file = NoFile
    /\ error = NoError
    /\ log = <<>>

WindowsYield ==
    /\ pc = "windows"
    /\ GenYield
    /\ UNCHANGED <<args, pc, start_date, end_date, winVars, fetchVars, pollVars,
                   completed, ids, all_windows, out_file, error, log>>

WindowsExhaust ==
    /\ pc = "windows"
    /\ GenExhaust
    /\ UNCHANGED <<args, pc, start_date, end_date, winVars, fetchVars, pollVars,
                   completed, ids, all_windows, out_file, error, log>>

WindowsNext == WindowsYield \/ WindowsExhaust

SpecWindows == WindowsInit /\ [][WindowsNext]_vars

\* ------------------------------------------------------ build_audit_payload
\* the request payload: "end_date" is a key only for a multi-day window
build_audit_payload_always_end(window_start, window_end) ==
    [k \in {"report_type", "start_date", "end_date"} |->
        CASE k = "report_type" -> "AUDIT"
          [] k = "start_date" -> Strftime(window_start)
          [] k = "end_date" -> Strftime(window_end)]
build_audit_payload(window_start, window_end) ==
    [k \in {"report_type", "start_date"}
           \cup (IF window_end > window_start THEN {"end_date"} ELSE {}) |->
        CASE k = "report_type" -> "AUDIT"
          [] k = "start_date" -> Strftime(window_start)
          [] k = "end_date" -> Strftime(window_end)]

\* dict.get(key, default) on a payload
PayloadGet_no_default(p, key, default) == IF key \in DOMAIN p THEN p[key] ELSE ""
PayloadGet(p, key, default) == IF key \in DOMAIN p THEN p[key] ELSE default

\* ------------------------------------------------------------ request_report
\* embedded = data.get("_embedded", {}): a missing field gives an empty object
\* embedded.get("id"): None when the object has no "id"
EmbeddedId(body) == IF body.emb_id = Absent THEN Null ELSE body.emb_id

\* report_id = data.get("id") or embedded.get("id"); embedded.get raises
\* AttributeError when "_embedded" is null and the top-level id is not truthy
IdLookupRaises(body) == ~Truthy(body.id) /\ body.emb = Null
IdLookup(body) == IF Truthy(body.id) THEN body.id ELSE EmbeddedId(body)

\* ----------------------------------------------------------- get_report_once
\* url = f"{BASE_URL}/{report_id}": the identifier the status fetch asks for
ReportUrlId_fixed(rid) == "r1"
ReportUrlId(rid) == rid

\* ----------------------------------------------------------- wait_for_report
\* embedded.get("status") raises AttributeError when "_embedded" is null
StatusRaises(body) == body.emb = Null
\* status = embedded.get("status"): None when missing
StatusOf_no_default(body) == body.status
StatusOf(body) == IF body.status = Absent THEN Null ELSE body.status

\* status == "COMPLETED"
IsCompleted_early(st) == st \in {"COMPLETED", "PROCESSING"}
IsCompleted(st) == st = "COMPLETED"

\* status not in ("SUBMITTED", "PROCESSING", None)
NonTerminal == {"SUBMITTED", "PROCESSING", Null}
IsUnexpected_retry(st) == st \notin NonTerminal \cup {"FAILED"}
IsUnexpected(st) == st \notin NonTerminal

\* the loop condition of: for attempt in range(1, max_polls + 1)
HasNextAttempt_forever(att, max_polls) == TRUE
HasNextAttempt_at_least_once(att, max_polls) == att = 0 \/ att + 1 <= max_polls
HasNextAttempt_extra(att, max_polls) == att <= max_polls
HasNextAttempt(att, max_polls) == att + 1 <= max_polls

\* ---------------------------------------------------------------------- main
\* number of days of the ranges a run is given (0: the end is before the start)
RangeDays ==
    {f * MAX_WINDOW_DAYS + r : f \in 0 .. MaxFullWindows, r \in {0, 1}}

\* the values of dt.date.today(): the day before the start, and a day that
\* is one full window and one day after it
Todays == {Date(2023, 12, 31), Date(2023, 12, 31) + MAX_WINDOW_DAYS + 1}

BadDateText == "2023-02-29"
StartTexts == {"2024-01-01", BadDateText}
EndTexts(s) ==
    {"", BadDateText} \cup
    (IF IsIsoDate(s) THEN {Strftime(to_date(s) + n - 1) : n \in RangeDays} ELSE {})

Init ==
    /\ \E s \in StartTexts : \E e \in EndTexts(s) : \E mp \in -1 .. MaxPolls :
         args = [start_date |-> s, end_date |-> e, max_polls |-> mp]
    /\ pc = "main"
    /\ start_date = 0
    /\ end_date = 0
    /\ gen_pc = "start"
    /\ gen_current = 0
    /\ gen_window_end = 0
    /\ yielded = <<>>
    /\ win_id = 0
    /\ w_start = 0
    /\ w_end = 0
    /\ payload = NoPayload
    /\ start_str = ""
    /\ end_str = ""
    /\ report_id = ""
    /\ post_data = NoPostData
    /\ ids = <<>>
    /\ attempt = 0
    /\ data = NoData
    /\ status = Null
    /\ seen = <<>>
    /\ completed = <<>>
    /\ all_windows = <<>>
    /\ out_file = NoFile
    /\ error = NoError
    /\ log = <<>>

\* if start_date > end_date
RangeInvalid_unchecked(s, e) == FALSE
RangeInvalid(s, e) == s > e

\* an exception nothing catches: the process ends
Raise_swallowed(type, detail) ==
    /\ pc' = "for"
    /\ error' = [type |-> type, detail |-> detail]
Raise_retry(type, detail) ==
    /\ pc' = pc
    /\ error' = NoError
Raise(type, detail) ==
    /\ pc' = "failed"
    /\ error' = [type |-> type, detail |-> detail]

\* main, lines 161-172: parse the dates and validate the range
MainStart ==
    /\ pc = "main"
    /\ IF ~IsIsoDate(args.start_date)
          \/ (args.end_date # "" /\ ~IsIsoDate(args.end_date))
       THEN /\ Raise("ValueError", "fromisoformat")
            /\ UNCHANGED <<start_date, end_date>>
       ELSE \E today \in Todays :
            /\ start_date' = to_date(args.start_date)
            /\ end_date' = IF args.end_date # "" THEN to_date(args.end_date) ELSE today
            /\ IF RangeInvalid(start_date', end_date')
               THEN Raise("ValueError", "start-date must be on or before end-date")
               ELSE pc' = "for" /\ UNCHANGED error
    /\ UNCHANGED <<args, genVars, winVars, fetchVars, pollVars, completed, ids,
                   all_windows, out_file, log>>

\* main, lines 174-175, and fetch_audit_window, lines 134-138: the next window
\* is taken from the generator and its payload is built
ForNextWindow ==
    /\ pc = "for"
    /\ GenYield
    /\ win_id' = win_id + 1
    /\ w_start' = gen_current'
    /\ w_end' = gen_window_end'
    /\ payload' = build_audit_payload(w_start', w_end')
    /\ start_str' = payload'["start_date"]
    /\ end_str' = PayloadGet(payload', "end_date", start_str')
    /\ pc' = "request"
    /\ UNCHANGED <<args, start_date, end_date, report_id, post_data, ids,
                   pollVars, completed,
                   all_windows, out_file, error, log>>

\* main, line 174: the generator is exhausted, the loop ends
ForExhausted ==
    /\ pc = "for"
    /\ GenExhaust
    /\ pc' = "write"
    /\ UNCHANGED <<args, start_date, end_date, winVars, fetchVars, pollVars,
                   completed, ids, all_windows, out_file, error, log>>

\* request_report, lines 77-84: the submission is posted and answered
SubmitReport ==
    /\ pc = "request"
    /\ log' = Append(log, Event("POST", win_id, ""))
    /\ \E http \in HttpOutcomes : \E body \in PostBodies :
         IF http = "HTTPError"
         THEN Raise("HTTPError", "POST") /\ UNCHANGED post_data
         ELSE /\ post_data' = body
              /\ pc' = "submitted"
              /\ UNCHANGED error
    /\ UNCHANGED <<args, start_date, end_date, genVars, winVars, payload,
                   start_str, end_str, report_id, ids, pollVars, completed,
                   all_windows, out_file>>

\* request_report, lines 86-94, and fetch_audit_window, lines 140-141: the
\* identifier is looked up in the response and returned
RequestReport ==
    /\ pc = "submitted"
    /\ IF IdLookupRaises(post_data)
       THEN Raise("AttributeError", "POST") /\ UNCHANGED <<report_id, post_data, ids>>
       ELSE IF ~Truthy(IdLookup(post_data))
       THEN /\ Raise("RuntimeError", "No 'id' in response")
            /\ UNCHANGED <<report_id, post_data, ids>>
       ELSE /\ report_id' = IdLookup(post_data)
            /\ ids' = Append(ids, report_id')
            /\ post_data' = NoPostData
            /\ pc' = "poll"
            /\ UNCHANGED error
    /\ UNCHANGED <<args, start_date, end_date, genVars, winVars, payload,
                   start_str, end_str, pollVars, completed, all_windows,
                   out_file, log>>

\* wait_for_report, lines 109-123: one poll attempt
PollFetch ==
    /\ pc = "poll"
    /\ HasNextAttempt(attempt, args.max_polls)
    /\ attempt' = attempt + 1
    /\ log' = Append(log, Event("GET", win_id, ReportUrlId(report_id)))
    /\ \E http \in HttpOutcomes : \E body \in GetBodies :
         IF http = "HTTPError"
         THEN /\ Raise("HTTPError", "GET")
              /\ UNCHANGED <<data, status, seen, completed>>
         ELSE /\ data' = body
              /\ IF StatusRaises(body)
                 THEN /\ Raise("AttributeError", "GET")
                      /\ UNCHANGED <<status, seen, completed>>
                 ELSE /\ status' = StatusOf(body)
                      /\ seen' = Append(seen, status')
                      /\ IF IsCompleted(status')
                         THEN /\ pc' = "pace"
                              /\ completed' = Append(completed,
                                                [win |-> win_id, body |-> body])
                              /\ UNCHANGED error
                         ELSE IF IsUnexpected(status')
                         THEN /\ Raise("RuntimeError", "unexpected status")
                              /\ UNCHANGED completed
                         ELSE /\ pc' = "poll_sleep"
                              /\ UNCHANGED <<error, completed>>
    /\ UNCHANGED <<args, start_date, end_date, genVars, winVars, fetchVars,
                   ids, all_windows, out_file>>

\* wait_for_report, line 125: time.sleep(poll_interval)
PollSleep_next_window ==
    /\ pc = "poll_sleep"
    /\ log' = Append(log, Event("SLEEP", win_id, ""))
    /\ pc' = "for"
    /\ UNCHANGED <<args, start_date, end_date, genVars, winVars, fetchVars,
                   pollVars, completed, ids, all_windows, out_file, error>>
PollSleep_skip_last ==
    /\ pc = "poll_sleep"
    /\ log' = IF attempt = args.max_polls THEN log
              ELSE Append(log, Event("SLEEP", win_id, ""))
    /\ pc' = "poll"
    /\ UNCHANGED <<args, start_date, end_date, genVars, winVars, fetchVars,
                   pollVars, completed, ids, all_windows, out_file, error>>
PollSleep ==
    /\ pc = "poll_sleep"
    /\ log' = Append(log, Event("SLEEP", win_id, ""))
    /\ pc' = "poll"
    /\ UNCHANGED <<args, start_date, end_date, genVars, winVars, fetchVars,
                   pollVars, completed, ids, all_windows, out_file, error>>

\* wait_for_report, lines 127-129: the poll budget is exhausted
PollTimeout ==
    /\ pc = "poll"
    /\ ~HasNextAttempt(attempt, args.max_polls)
    /\ Raise("TimeoutError", "did not reach COMPLETED")
    /\ UNCHANGED <<args, start_date, end_date, genVars, winVars, fetchVars,
                   pollVars, completed, ids, all_windows, out_file, log>>

\* fetch_audit_window, lines 149-151: time.sleep(sleep_between_windows)
PaceSleep_not_after_last ==
    /\ pc = "pace"
    /\ log' = IF w_end = end_date THEN log
              ELSE Append(log, Event("PACE", win_id, ""))
    /\ pc' = "return"
    /\ UNCHANGED <<args, start_date, end_date, genVars, winVars, fetchVars,
                   pollVars, completed, ids, all_windows, out_file, error>>
PaceSleep ==
    /\ pc = "pace"
    /\ log' = Append(log, Event("PACE", win_id, ""))
    /\ pc' = "return"
    /\ UNCHANGED <<args, start_date, end_date, genVars, winVars, fetchVars,
                   pollVars, completed, ids, all_windows, out_file, error>>

\* main, line 184: all_windows.append(window_data)
AppendOutcome_replace(windows, window_data) == <<window_data>>
AppendOutcome(windows, window_data) == Append(windows, window_data)

\* fetch_audit_window, lines 153-157, and main, line 184: the outcome is
\* returned and appended; the locals of fetch_audit_window are gone
ReturnAppend ==
    /\ pc = "return"
    /\ all_windows' = AppendOutcome(all_windows,
                        [window_start |-> start_str,
                         window_end |-> end_str,
                         report |-> data])
    /\ log' = Append(log, Event("APPEND", win_id, ""))
    /\ payload' = NoPayload
    /\ start_str' = ""
    /\ end_str' = ""
    /\ report_id' = ""
    /\ post_data' = NoPostData
    /\ attempt' = 0
    /\ data' = NoData
    /\ status' = Null
    /\ seen' = <<>>
    /\ pc' = "for"
    /\ UNCHANGED <<args, start_date, end_date, genVars, winVars, completed, ids,
                   out_file, error>>

\* main, lines 186-190: the output file is written
OutFileName(s, e) ==
    "veracode_audit_" \o Strftime(s) \o "_to_" \o Strftime(e) \o ".json"

WriteOutput ==
    /\ pc = "write"
    /\ out_file' = [written |-> TRUE,
                    name |-> OutFileName(start_date, end_date),
                    content |-> all_windows]
    /\ log' = Append(log, Event("WRITE", 0, ""))
    /\ pc' = "done"
    /\ UNCHANGED <<args, start_date, end_date, genVars, winVars, fetchVars,
                   pollVars, completed, ids, all_windows, error>>

Next ==
    \/ MainStart
    \/ ForNextWindow
    \/ ForExhausted
    \/ SubmitReport
    \/ RequestReport
    \/ PollFetch
    \/ PollSleep
    \/ PollTimeout
    \/ PaceSleep
    \/ ReturnAppend
    \/ WriteOutput

Spec == Init /\ [][Next]_vars

\* the process keeps running while it has a step to take: every network
\* call and every sleep returns
FairSpec == Spec /\ WF_vars(Next)

\* ------------------------------------------------------------ log helpers
\* positions of the log whose event is op for window w
Positions(op, w) == {i \in DOMAIN log : log[i].op = op /\ log[i].win = w}
Count(op, w) == Cardinality(Positions(op, w))
CountOp(op) == Cardinality({i \in DOMAIN log : log[i].op = op})

\* inclusive number of days of a window
SpanDays(w) == w[2] - w[1] + 1

\* ================================================================== claims

\* C1: for start <= end the windows yielded by date_iteration_windows are
\* ordered, contiguous and non-overlapping and cover [start, end] exactly
\* once: the first starts at start, the last ends at end, each has
\* window_start <= window_end, each later one starts one day after the
\* previous one's end, and each spans at most MAX_WINDOW_DAYS days.
C1_WindowsCoverRange ==
    start_date <= end_date =>
        /\ \A i \in DOMAIN yielded :
             /\ yielded[i][1] <= yielded[i][2]
             /\ SpanDays(yielded[i]) <= MAX_WINDOW_DAYS
             /\ yielded[i][2] <= end_date
        /\ \A i \in DOMAIN yielded :
             i > 1 => yielded[i][1] = yielded[i - 1][2] + 1
        /\ yielded # <<>> => yielded[1][1] = start_date
        /\ gen_pc = "done" =>
             /\ yielded # <<>>
             /\ yielded[Len(yielded)][2] = end_date

C1_Witness ==
    /\ pc = "windows"
    /\ gen_pc = "done"
    /\ start_date <= end_date
    /\ Len(yielded) = 3
    /\ SpanDays(yielded[3]) < MAX_WINDOW_DAYS

\* C2: date_iteration_windows is greedy: every window but the last spans
\* exactly MAX_WINDOW_DAYS days, so n >= 1 days yield ceil(n / MAX_WINDOW_DAYS)
\* windows; one day yields the window (day, day), MAX_WINDOW_DAYS days yield
\* one window and MAX_WINDOW_DAYS + 1 days yield two.
C2_GreedyWindowCount ==
    LET n == end_date - start_date + 1 IN
    /\ \A i \in DOMAIN yielded :
         i < Len(yielded) => SpanDays(yielded[i]) = MAX_WINDOW_DAYS
    /\ (gen_pc = "done" /\ n >= 1) =>
         /\ Len(yielded) = (n + MAX_WINDOW_DAYS - 1) \div MAX_WINDOW_DAYS
         /\ n = 1 => yielded = << <<start_date, start_date>> >>
         /\ n = MAX_WINDOW_DAYS => Len(yielded) = 1
         /\ n = MAX_WINDOW_DAYS + 1 => Len(yielded) = 2

C2_Witness ==
    /\ pc = "windows"
    /\ gen_pc = "done"
    /\ end_date - start_date + 1 = MAX_WINDOW_DAYS + 1
    /\ Len(yielded) = 2
    /\ SpanDays(yielded[2]) = 1

\* C3: when start-date > end-date, main fails validation before any network
\* interaction: no POST, no GET, no window processed, no output file.
C3_NoNetworkOnBadRange ==
    (pc # "main" /\ start_date > end_date) =>
        /\ pc = "failed"
        /\ error.type = "ValueError"
        /\ log = <<>>
        /\ yielded = <<>>
        /\ win_id = 0
        /\ all_windows = <<>>
        /\ ~out_file.written

C3_Witness ==
    /\ pc = "failed"
    /\ start_date = Date(2024, 1, 1)
    /\ end_date = Date(2023, 12, 31)
    /\ error = [type |-> "ValueError",
                detail |-> "start-date must be on or before end-date"]

\* C4: wait_for_report returns the full fetched body of the first attempt k
\* whose status is COMPLETED (k <= max_polls, all earlier attempts
\* SUBMITTED, PROCESSING or no status), after exactly k fetches and with no
\* fetch and no sleep after that attempt; first status COMPLETED means one
\* poll and no sleep.
C4_ReturnsFirstCompleted ==
    pc \in {"pace", "return"} =>
        LET k == attempt IN
        /\ k >= 1
        /\ k <= args.max_polls
        /\ Len(seen) = k
        /\ seen[k] = "COMPLETED"
        /\ \A j \in 1 .. k - 1 : seen[j] \in NonTerminal
        /\ data \in GetBodies
        /\ data.status = "COMPLETED"
        /\ completed # <<>>
        /\ completed[Len(completed)] = [win |-> win_id, body |-> data]
        /\ Count("GET", win_id) = k
        /\ Count("SLEEP", win_id) = k - 1
        /\ \A sl \in Positions("SLEEP", win_id) :
             \E g \in Positions("GET", win_id) : g > sl

C4_Witness ==
    /\ pc = "pace"
    /\ attempt = 2
    /\ seen = <<"PROCESSING", "COMPLETED">>
    /\ Count("GET", win_id) = 2
    /\ Count("SLEEP", win_id) = 1

\* wait_for_report has seen max_polls attempts, all of them non-terminal
BudgetExhausted ==
    /\ report_id # ""
    /\ pc \in {"poll", "poll_sleep", "failed"}
    /\ Len(seen) = args.max_polls
    /\ \A j \in DOMAIN seen : seen[j] \in NonTerminal

\* C5: when the status stays non-terminal for max_polls consecutive
\* attempts, wait_for_report fails with TimeoutError after exactly max_polls
\* fetches, makes no fetch numbered max_polls + 1 and returns no body.
C5_TimeoutAfterMaxPolls ==
    /\ [](BudgetExhausted =>
            /\ attempt = args.max_polls
            /\ Count("GET", win_id) = args.max_polls
            /\ \A i \in DOMAIN completed : completed[i].win # win_id
            /\ pc = "failed" => error.type = "TimeoutError")
    /\ [][(BudgetExhausted /\ pc = "poll_sleep") =>
            (pc' = "poll" /\ BudgetExhausted'
               /\ Count("GET", win_id)' = args.max_polls)]_vars
    /\ [][(BudgetExhausted /\ pc = "poll") =>
            (pc' = "failed" /\ error'.type = "TimeoutError" /\ log' = log
               /\ completed' = completed)]_vars

C5_Witness ==
    /\ pc = "failed"
    /\ error.type = "TimeoutError"
    /\ args.max_polls = 2
    /\ seen = <<"SUBMITTED", "PROCESSING">>
    /\ Count("GET", win_id) = 2

\* C6: an attempt that reports a status other than COMPLETED, SUBMITTED,
\* PROCESSING or absent/null makes wait_for_report fail at once with the
\* unexpected-status error: no further fetch and no sleep after it,
\* whatever poll budget remains.
C6_UnexpectedStatusFatal ==
    (seen # <<>> /\ seen[Len(seen)] \notin NonTerminal \cup {"COMPLETED"}) =>
        /\ pc = "failed"
        /\ error = [type |-> "RuntimeError", detail |-> "unexpected status"]
        /\ log[Len(log)] = Event("GET", win_id, report_id)
        /\ Count("GET", win_id) = Len(seen)
        /\ Count("SLEEP", win_id) = Len(seen) - 1

C6_Witness ==
    /\ pc = "failed"
    /\ status = "FAILED"
    /\ attempt = 1
    /\ args.max_polls = 2
    /\ error.type = "RuntimeError"

\* C7: for every window, build_audit_payload gives report_type AUDIT and
\* start_date equal to the window start, and has the end_date field exactly
\* when the window is multi-day.
C7_PayloadEndDateOnlyMultiDay ==
    pc = "request" =>
        /\ w_start <= w_end
        /\ payload["report_type"] = "AUDIT"
        /\ IsIsoDate(payload["start_date"])
        /\ to_date(payload["start_date"]) = w_start
        /\ ("end_date" \in DOMAIN payload) <=> (w_end > w_start)

C7_Witness ==
    /\ pc = "request"
    /\ w_start = w_end
    /\ DOMAIN payload = {"report_type", "start_date"}

\* an event of one window (the write of the output file belongs to none)
IsWindowEvent(e) == e.op # "WRITE"

\* C8: processing is strictly sequential: a window's POST precedes its GETs,
\* the whole cycle of window i is over before the POST of window i+1,
\* windows are processed in the order they are yielded and at most one
\* report is in flight.
C8_StrictlySequential ==
    /\ \A i \in DOMAIN log :
         log[i].op = "GET" =>
           \E p \in 1 .. i - 1 : log[p].op = "POST" /\ log[p].win = log[i].win
    /\ LET events == SelectSeq(log, IsWindowEvent) IN
       \A i \in 1 .. Len(events) - 1 : events[i].win <= events[i + 1].win
    /\ \A p \in DOMAIN log :
         (log[p].op = "POST" /\ log[p].win > 1) =>
           /\ \E q \in 1 .. p - 1 :
                log[q].op = "PACE" /\ log[q].win = log[p].win - 1
           /\ \E c \in DOMAIN completed : completed[c].win = log[p].win - 1
    /\ \A w \in 1 .. win_id : Count("POST", w) <= 1
    /\ Cardinality({w \in 1 .. win_id :
                      /\ Count("POST", w) > 0
                      /\ \A c \in DOMAIN completed : completed[c].win # w}) <= 1
    /\ win_id = Len(yielded)
    /\ win_id > 0 => <<w_start, w_end>> = yielded[win_id]

C8_Witness ==
    /\ Count("POST", 2) = 1
    /\ Count("GET", 2) >= 1
    /\ Count("GET", 1) = 2

\* the run has been ended by an exception
Failed == error.type # ""

\* C9: every failure aborts the run: after a failed submission or poll no
\* later window is submitted or polled, the window is not retried and the
\* output file is never written, even when earlier windows completed.
C9_FailureAbortsRun ==
    /\ [](Failed =>
            /\ pc = "failed"
            /\ ~out_file.written
            /\ \A w \in 1 .. win_id : Count("POST", w) <= 1)
    /\ [][~Failed]_vars

C9_Witness ==
    /\ Failed
    /\ error.type = "HTTPError"
    /\ win_id = 2
    /\ Len(all_windows) = 1
    /\ ~out_file.written

\* C10: a successful run writes an ordered list with one outcome per window
\* yielded, in window order, with the ISO texts of the window's start and
\* end and the body of that window's COMPLETED poll.
C10_OutputListsEveryWindow ==
    out_file.written =>
        LET out == out_file.content IN
        /\ gen_pc = "done"
        /\ yielded # <<>>
        /\ yielded[1][1] = start_date
        /\ yielded[Len(yielded)][2] = end_date
        /\ Len(out) = Len(yielded)
        /\ Len(completed) = Len(yielded)
        /\ \A i \in DOMAIN out :
             /\ out[i].window_start = Strftime(yielded[i][1])
             /\ out[i].window_end = Strftime(yielded[i][2])
             /\ completed[i].win = i
             /\ out[i].report = completed[i].body
             /\ out[i].report.status = "COMPLETED"
        /\ (args.start_date = "2024-01-01" /\ args.end_date = "2024-01-01") =>
             /\ Len(out) = 1
             /\ out[1].window_start = "2024-01-01"
             /\ out[1].window_end = "2024-01-01"

C10_Witness ==
    /\ out_file.written
    /\ Len(out_file.content) = 2
    /\ out_file.content[2].window_start = out_file.content[2].window_end
    /\ out_file.content[1].window_start # out_file.content[1].window_end

\* C11: for every submission response that is a JSON object, request_report
\* follows the rule "top-level id, else _embedded.id, else fail": it returns
\* the top-level id when that is an identifier, otherwise the nested id when
\* that is one, and otherwise fails with the RuntimeError that reports the
\* body; no other outcome is possible.
C11_IdFallbackRule ==
    [][pc = "submitted" =>
         IF Truthy(post_data.id)
         THEN pc' = "poll" /\ report_id' = post_data.id /\ error' = NoError
         ELSE IF post_data.emb = "object" /\ Truthy(post_data.emb_id)
         THEN pc' = "poll" /\ report_id' = post_data.emb_id /\ error' = NoError
         ELSE /\ pc' = "failed"
              /\ error' = [type |-> "RuntimeError", detail |-> "No 'id' in response"]
              /\ post_data' = post_data]_vars

\* a step that fetched a status response whose "_embedded" is missing or an
\* object and whose status is SUBMITTED, PROCESSING, null or missing
FetchedNonTerminal ==
    /\ pc = "poll"
    /\ log' = Append(log, Event("GET", win_id, report_id))
    /\ error'.type # "HTTPError"
    /\ data'.emb \in {Absent, "object"}
    /\ data'.status \in {"SUBMITTED", "PROCESSING", Null, Absent}

C13_FetchUsesOwnReportId ==
    /\ Len(ids) \in {win_id - 1, win_id}
    /\ \A i \in DOMAIN log :
         log[i].op = "GET" =>
           /\ log[i].win \in DOMAIN ids
           /\ log[i].id = ids[log[i].win]
           /\ \A p \in 1 .. i - 1 :
                log[p].op = "POST" => log[p].win <= log[i].win
           /\ \E p \in 1 .. i - 1 :
                log[p].op = "POST" /\ log[p].win = log[i].win
    /\ pc \in {"poll", "poll_sleep", "pace", "return"} =>
         (Len(ids) = win_id /\ report_id = ids[win_id])

C13_Witness ==
    /\ Len(ids) = 2
    /\ ids[1] # ids[2]
    /\ \E i \in DOMAIN log : log[i] = Event("GET", 2, ids[2])
    /\ \E i \in DOMAIN log : log[i] = Event("GET", 1, ids[1])

\* C14: each window's request is sent exactly once: the POSTs never
\* outnumber the windows started, no POST is repeated after a failure, only
\* the status fetch is ever repeated, and a successful run has made one POST
\* per window.
C14_EachRequestSentOnce ==
    /\ [](/\ win_id = Len(yielded)
          /\ CountOp("POST") <= win_id
          /\ \A i \in DOMAIN log : log[i].op = "POST" => log[i].win \in 1 .. win_id
          /\ \A w \in 1 .. win_id :
               /\ Count("POST", w) <= 1
               /\ Count("PACE", w) <= 1
               /\ Count("APPEND", w) <= 1
          /\ CountOp("WRITE") <= 1
          /\ out_file.written =>
               (gen_pc = "done" /\ CountOp("POST") = Len(yielded)))
    /\ [][CountOp("POST")' # CountOp("POST") =>
            (pc = "request" /\ Count("POST", win_id) = 0 /\ ~Failed)]_vars

C14_Witness ==
    /\ out_file.written
    /\ Len(yielded) = 2
    /\ CountOp("POST") = 2
    /\ Count("GET", 1) = 2
    /\ Count("GET", 2) = 2

\* C15: the pacing sleep happens exactly once per successfully retrieved
\* window, after its COMPLETED body is obtained and before its outcome is
\* appended and before the next window's submission; it also happens after
\* the last window, before the output is written, and not for a window whose
\* submission or polling failed.
C15_PacingSleepOncePerWindow ==
    /\ \A w \in 1 .. win_id : Count("PACE", w) <= 1
    /\ \A q \in DOMAIN log :
         log[q].op = "PACE" =>
           /\ \E c \in DOMAIN completed : completed[c].win = log[q].win
           /\ \E g \in 1 .. q - 1 : log[g].op = "GET" /\ log[g].win = log[q].win
           /\ \A j \in DOMAIN log :
                (j > q /\ log[j].win = log[q].win) => log[j].op = "APPEND"
    /\ \A a \in DOMAIN log :
         log[a].op = "APPEND" =>
           \E q \in 1 .. a - 1 : log[q].op = "PACE" /\ log[q].win = log[a].win
    /\ \A p \in DOMAIN log :
         (log[p].op = "POST" /\ log[p].win > 1) =>
           \E q \in 1 .. p - 1 : log[q].op = "PACE" /\ log[q].win = log[p].win - 1
    /\ \A x \in DOMAIN log :
         log[x].op = "WRITE" =>
           \A w \in 1 .. Len(yielded) :
             \E q \in 1 .. x - 1 : log[q].op = "PACE" /\ log[q].win = w
    /\ \A c \in DOMAIN completed :
         (completed[c].win < win_id \/ pc # "pace") =>
           Count("PACE", completed[c].win) = 1
    /\ \A i \in DOMAIN all_windows : Count("PACE", i) = 1
    /\ (Failed /\ win_id >= 1) => Count("PACE", win_id) = 0

C15_Witness ==
    /\ out_file.written
    /\ Len(yielded) = 2
    /\ Count("PACE", 1) = 1
    /\ Count("PACE", 2) = 1
    /\ log[Len(log) - 2] = Event("PACE", 2, "")

\* the windows whose fetch_audit_window call has returned: COMPLETED was
\* polled, the pacing sleep is over and the return statement has run
ReturnedWindows ==
    {w \in 1 .. win_id :
       /\ \E c \in DOMAIN completed : completed[c].win = w
       /\ Count("PACE", w) = 1
       /\ ~(w = win_id /\ pc = "return")}

\* C16: the outcome sequence is append-only and tracks the completed windows
\* exactly: it holds one outcome, in window order, for each window whose
\* poll reached COMPLETED and whose pacing sleep finished (the outcome being
\* appended as fetch_audit_window returns), and nothing else; an outcome is
\* never changed or removed and none is appended for a window that failed.
C16_OutcomesAppendOnly ==
    /\ [](/\ DOMAIN all_windows = ReturnedWindows
          /\ \A i \in DOMAIN all_windows :
               /\ completed[i].win = i
               /\ all_windows[i] = [window_start |-> Strftime(yielded[i][1]),
                                    window_end |-> Strftime(yielded[i][2]),
                                    report |-> completed[i].body]
          /\ (Failed /\ win_id >= 1) => win_id \notin DOMAIN all_windows)
    /\ [][\/ all_windows' = all_windows
          \/ /\ pc = "return"
             /\ Len(all_windows') = Len(all_windows) + 1
             /\ SubSeq(all_windows', 1, Len(all_windows)) = all_windows]_vars

C16_Witness ==
    /\ pc = "failed"
    /\ win_id = 2
    /\ Len(all_windows) = 1
    /\ all_windows[1].report = completed[1].body
    /\ error.type = "RuntimeError"

\* the number of windows of the parsed range, and the fetches one window may make
NumWindows ==
    IF start_date <= end_date
    THEN (end_date - start_date + MAX_WINDOW_DAYS) \div MAX_WINDOW_DAYS
    ELSE 0
PollBudget == IF args.max_polls > 0 THEN args.max_polls ELSE 0

\* C17: every run terminates (each network call and each sleep returning):
\* there are finitely many windows and at most max_polls fetches per window,
\* so a run over W windows makes at most W submissions and W * max_polls
\* fetches before it writes the output or aborts; polling of one report
\* never goes on forever.
C17_RunTerminates ==
    /\ [](pc # "main" =>
            /\ Len(yielded) <= NumWindows
            /\ CountOp("POST") <= NumWindows
            /\ CountOp("GET") <= NumWindows * PollBudget
            /\ \A w \in 1 .. win_id : Count("GET", w) <= PollBudget)
    /\ <>(out_file.written \/ Failed)
    /\ [][(out_file.written \/ Failed) => FALSE]_vars

C17_Witness ==
    /\ out_file.written
    /\ NumWindows = 2
    /\ CountOp("POST") = 2
    /\ CountOp("GET") = 2 * args.max_polls
    /\ args.max_polls = 2

\* C18: wait_for_report sleeps after every non-terminal attempt, the last
\* one included: when the poll budget is exhausted it has slept exactly
\* max_polls times and raises TimeoutError right after the final sleep, with
\* no fetch in between.
C18_SleepsBeforeTimeout ==
    (error.type = "TimeoutError" /\ args.max_polls >= 1) =>
        /\ Count("SLEEP", win_id) = args.max_polls
        /\ Count("GET", win_id) = args.max_polls
        /\ log[Len(log)] = Event("SLEEP", win_id, "")
        /\ log[Len(log) - 1] = Event("GET", win_id, report_id)
        /\ \A i \in DOMAIN seen : seen[i] \in NonTerminal

C18_Witness ==
    /\ error.type = "TimeoutError"
    /\ args.max_polls = 2
    /\ Count("SLEEP", win_id) = 2
    /\ win_id = 2

\* C19: with max_polls <= 0, wait_for_report raises TimeoutError without
\* fetching or sleeping: a run with start <= end submits the first window's
\* report (one POST), never polls it, makes no other network call and aborts
\* without writing output.
C19_NoPollBudget ==
    /\ [](args.max_polls <= 0 =>
            /\ CountOp("GET") = 0
            /\ CountOp("SLEEP") = 0
            /\ CountOp("PACE") = 0
            /\ CountOp("POST") <= 1
            /\ win_id <= 1
            /\ ~out_file.written
            /\ all_windows = <<>>
            /\ pc \notin {"poll_sleep", "pace", "return", "write", "done"}
            /\ (pc = "failed" /\ start_date # 0 /\ start_date <= end_date) =>
                 /\ log = <<Event("POST", 1, "")>>
                 /\ report_id # "" => error.type = "TimeoutError")
    /\ [][(args.max_polls <= 0 /\ pc = "poll") =>
            (pc' = "failed" /\ error'.type = "TimeoutError" /\ log' = log)]_vars

C19_Witness ==
    /\ args.max_polls = 0
    /\ pc = "failed"
    /\ error.type = "TimeoutError"
    /\ log = <<Event("POST", 1, "")>>
    /\ end_date - start_date + 1 = MAX_WINDOW_DAYS + 1

====
